---- MODULE Spec2Model ----
(***************************************************************************)
(* Model of ocaml/netdev/bridge_stubs.c: the four OCaml C stubs that       *)
(* create and destroy Linux bridge devices and attach and detach           *)
(* interfaces through ioctl(2).                                            *)
(*                                                                         *)
(* A stub runs in an OCaml thread (a task) that holds the runtime's master *)
(* lock.  Each stub is split at its blocking calls: the *_call action      *)
(* runs the stub up to its first blocking call, *_resolved runs from the   *)
(* return of if_nametoindex up to the ioctl, and *_ret lets the kernel     *)
(* perform the request and runs the stub to its return or raise.           *)
(*                                                                         *)
(* Bytes are small integers, 0 is the NUL byte; a name is a sequence of    *)
(* bytes.  The kernel's device table is the set netdev.  The caller is     *)
(* taken to hold CAP_NET_ADMIN (privilege acquisition is outside the       *)
(* stubs); a request fails only for the reasons the bridge code gives.     *)
(***************************************************************************)
EXTENDS Integers, Sequences, FiniteSets, TLC

VARIABLES netdev,      \* kernel: the set of network devices
          openFds,     \* kernel: the descriptors open in this process
          lockHolder,  \* the task holding the runtime's master lock
          pc,          \* per task: "idle", "if_nametoindex" or "ioctl"
          cur,         \* per task: the call in progress
          last,        \* history: the most recently completed call
          prev         \* history: the call completed just before last, kept
                       \* when it had the descriptor and names of last

vars == <<netdev, openFds, lockHolder, pc, cur, last, prev>>

---------------------------------------------------------------------------
(* Bounds and constants *)

IFNAMSIZ == 16
NumTasks == 2
MaxIndex == 3

Tasks == 1..NumTasks
StackBytes == {0, 255}

Fill(n, b) == [i \in 1..n |-> b]

B1 == <<1>>
Eth == <<2>>
NoSuch == <<3>>
Emb == <<1, 0, 2>>
Br15 == Fill(IFNAMSIZ - 1, 1)
Long16 == Fill(IFNAMSIZ, 1)
Long17 == Fill(IFNAMSIZ + 1, 1)

BridgeArgs == {Emb, Br15, Long16}
IntfArgs == {Eth, NoSuch, B1}

\* The arguments the callers pass: every pairing of these names on the open
\* socket 3, the 17-byte name with an interface that exists, and one call on
\* the descriptor 4, which is not open.
BridgeCalls == ({3} \X BridgeArgs) \cup {<<4, Br15>>}
IntfCalls ==
    ({3} \X BridgeArgs \X IntfArgs) \cup {<<3, Long17, Eth>>, <<4, Br15, Eth>>}

NoName == <<>>

Min(S) == CHOOSE x \in S : \A y \in S : x <= y

---------------------------------------------------------------------------
(* C strings and the libc functions the stubs call *)

\* String_val: the bytes of an OCaml string, which the runtime always
\* follows by a NUL byte.
String_val(v) == Append(v, 0)

strlen(s) == Min({i \in 1..Len(s) : s[i] = 0}) - 1

memset(dst, c, n) == [i \in 1..Len(dst) |-> IF i <= n THEN c ELSE dst[i]]

\* Copies at most n bytes of src; pads with NUL up to n when src is shorter;
\* writes no NUL when strlen(src) >= n.
strncpy(dst, src, n) ==
    [i \in 1..Len(dst) |->
        IF i > n THEN dst[i]
        ELSE IF i <= strlen(src) THEN src[i] ELSE 0]

\* struct ifreq as left on the stack by whatever ran before: no byte of it
\* is initialised.  ifr_pad stands for the bytes of the ifr_ifru union that
\* ifr_ifindex does not cover.
ifreq(g) == [ifr_name |-> Fill(IFNAMSIZ, g), ifr_ifindex |-> g, ifr_pad |-> g]

NoIfr == [ifr_name |-> <<>>, ifr_ifindex |-> 0, ifr_pad |-> 0]

---------------------------------------------------------------------------
(* The kernel *)

\* The device name the kernel reads from a name buffer: it takes IFNAMSIZ
\* bytes and forces the last one to NUL.
dev_name(bytes) ==
    LET lim == IF Len(bytes) < IFNAMSIZ - 1 THEN Len(bytes) ELSE IFNAMSIZ - 1
        z == {i \in 1..lim : bytes[i] = 0}
        n == IF z = {} THEN lim ELSE Min(z) - 1
    IN  SubSeq(bytes, 1, n)

dev_get_by_name(devs, n) == {d \in devs : d.name = n}
dev_get_by_index(devs, i) == {d \in devs : d.ifindex = i}

if_nametoindex(devs, s) ==
    LET found == dev_get_by_name(devs, SubSeq(s, 1, strlen(s)))
    IN  IF found = {} \/ strlen(s) >= IFNAMSIZ THEN 0
        ELSE (CHOOSE d \in found : TRUE).ifindex

FreeIndexes(devs) == {i \in 1..MaxIndex : dev_get_by_index(devs, i) = {}}
\* The indexes the kernel may give the device a request creates (0: none).
IndexChoices(devs, request) ==
    IF request # "SIOCBRADDBR" \/ FreeIndexes(devs) = {} THEN {0}
    ELSE FreeIndexes(devs)

Bridges(devs) == {d.name : d \in {e \in devs : e.bridge}}
Membership(devs) == {<<d.master, d.ifindex>> : d \in {e \in devs : e.master # NoName}}

KOk(devs) == [ret |-> 0, errno |-> "", netdev |-> devs]
KErr(devs, e) == [ret |-> -1, errno |-> e, netdev |-> devs]

br_add_bridge(devs, n, idx) ==
    IF n = NoName THEN KErr(devs, "EINVAL")
    ELSE IF dev_get_by_name(devs, n) # {} THEN KErr(devs, "EEXIST")
    ELSE IF idx = 0 THEN KErr(devs, "ENOMEM")
    ELSE KOk(devs \cup {[name |-> n, ifindex |-> idx, bridge |-> TRUE,
                         master |-> NoName]})

br_del_bridge(devs, n) ==
    LET found == dev_get_by_name(devs, n)
    IN  IF found = {} THEN KErr(devs, "ENXIO")
        ELSE IF \E d \in found : ~d.bridge THEN KErr(devs, "EPERM")
        ELSE KOk({IF d.master = n THEN [d EXCEPT !.master = NoName] ELSE d :
                    d \in devs \ found})

br_add_if(devs, n, i) ==
    LET br == dev_get_by_name(devs, n)
        port == dev_get_by_index(devs, i)
    IN  IF br = {} THEN KErr(devs, "ENODEV")
        ELSE IF \E d \in br : ~d.bridge THEN KErr(devs, "EOPNOTSUPP")
        ELSE IF port = {} THEN KErr(devs, "EINVAL")
        ELSE IF \E d \in port : d.bridge THEN KErr(devs, "ELOOP")
        ELSE IF \E d \in port : d.master # NoName THEN KErr(devs, "EBUSY")
        ELSE KOk({IF d \in port THEN [d EXCEPT !.master = n] ELSE d : d \in devs})

br_del_if(devs, n, i) ==
    LET br == dev_get_by_name(devs, n)
        port == dev_get_by_index(devs, i)
    IN  IF br = {} THEN KErr(devs, "ENODEV")
        ELSE IF \E d \in br : ~d.bridge THEN KErr(devs, "EOPNOTSUPP")
        ELSE IF port = {} THEN KErr(devs, "EINVAL")
        ELSE IF \E d \in port : d.master # n THEN KErr(devs, "EINVAL")
        ELSE KOk({IF d \in port THEN [d EXCEPT !.master = NoName] ELSE d :
                    d \in devs})

\* ioctl(fd, request, arg): carg is the argument of the two requests that
\* take a name, ifr the argument of the two that take a struct ifreq; idx is
\* the index the kernel gives a device it creates.
ioctl(devs, fds, fd, request, carg, ifr, idx) ==
    IF fd \notin fds THEN KErr(devs, "EBADF")
    ELSE CASE request = "SIOCBRADDBR" -> br_add_bridge(devs, dev_name(carg), idx)
           [] request = "SIOCBRDELBR" -> br_del_bridge(devs, dev_name(carg))
           [] request = "SIOCBRADDIF" ->
                br_add_if(devs, dev_name(ifr.ifr_name), ifr.ifr_ifindex)
           [] request = "SIOCBRDELIF" ->
                br_del_if(devs, dev_name(ifr.ifr_name), ifr.ifr_ifindex)
           [] OTHER -> KErr(devs, "ENOTTY")

---------------------------------------------------------------------------
(* Results of a stub and the record kept of a call *)

NoOutcome == [kind |-> "none", label |-> "", errno |-> ""]
Val_unit == [kind |-> "unit", label |-> "", errno |-> ""]
caml_failwith(msg, errno) == [kind |-> "Failure", label |-> msg, errno |-> errno]

\* CHECK_IOCTL(err, S) of netdev.h: raises Failure with the label S and the
\* errno text when err is negative, and falls through otherwise.
CHECK_IOCTL(err, errno, S) ==
    IF err < 0 THEN caml_failwith(S, errno) ELSE NoOutcome

NoCall ==
    [op |-> "none", fd |-> 0, name |-> NoName, intf |-> NoName,
     nres |-> 0, nioctl |-> 0, ifindex |-> 0, request |-> "",
     carg |-> NoName, ifr |-> NoIfr, ret |-> 0, errno |-> "",
     outcome |-> NoOutcome, pre |-> {}]

IntfOps == {"stub_bridge_intf_add", "stub_bridge_intf_del"}
BridgeOps == {"stub_bridge_add", "stub_bridge_del"}

---------------------------------------------------------------------------
(* Steps shared by the stubs *)

\* Task t, running OCaml code with the master lock, enters a stub and runs
\* it up to its first blocking call.
Begin(t, c, at) ==
    /\ pc[t] = "idle"
    /\ lockHolder = t
    /\ cur' = [cur EXCEPT ![t] = [c EXCEPT !.pre = netdev]]
    /\ pc' = [pc EXCEPT ![t] = at]
    /\ prev' = NoCall
    /\ UNCHANGED <<netdev, openFds, lockHolder, last>>

SameTarget(a, b) == a.fd = b.fd /\ a.name = b.name /\ a.intf = b.intf

\* The stub returns or raises: c is the finished call, devs the kernel's
\* devices after it.
Complete(t, c, devs) ==
    /\ cur' = [cur EXCEPT ![t] = NoCall]
    /\ pc' = [pc EXCEPT ![t] = "idle"]
    /\ last' = c
    /\ prev' = IF SameTarget(last, c) THEN last ELSE NoCall
    /\ netdev' = devs
    /\ UNCHANGED <<openFds, lockHolder>>

\* err = ioctl(...); CHECK_IOCTL(err, S); CAMLreturn(Val_unit);
IoctlReturn(t, op, S) ==
    /\ pc[t] = "ioctl"
    /\ cur[t].op = op
    /\ lockHolder = t
    /\ \E idx \in IndexChoices(netdev, cur[t].request) :
         LET c == cur[t]
             k == ioctl(netdev, openFds, c.fd, c.request, c.carg, c.ifr, idx)
             raised == CHECK_IOCTL(k.ret, k.errno, S)
         IN  Complete(t,
                      [c EXCEPT !.ret = k.ret, !.errno = k.errno,
                                !.outcome = IF raised.kind = "Failure"
                                            THEN raised ELSE Val_unit],
                      k.netdev)

\* From the return of if_nametoindex to the ioctl: raise when notfound,
\* else pass ifr with the request.
IntfResolved(t, op, ifindex, notfound, request, ifr) ==
    /\ pc[t] = "if_nametoindex"
    /\ cur[t].op = op
    /\ lockHolder = t
    /\ IF notfound
       THEN Complete(t, [cur[t] EXCEPT !.ifindex = ifindex,
                            !.outcome = caml_failwith("Device_not_found", "")],
                     netdev)
       ELSE /\ cur' = [cur EXCEPT ![t] =
                         [@ EXCEPT !.ifindex = ifindex, !.request = request,
                                   !.ifr = ifr, !.nioctl = @ + 1]]
            /\ pc' = [pc EXCEPT ![t] = "ioctl"]
            /\ UNCHANGED <<netdev, openFds, lockHolder, last, prev>>

---------------------------------------------------------------------------
(* stub_bridge_add *)

stub_bridge_add_call(t, fd, name) ==
    Begin(t, [NoCall EXCEPT !.op = "stub_bridge_add", !.fd = fd, !.name = name,
                            !.request = "SIOCBRADDBR",
                            !.carg = String_val(name), !.nioctl = 1],
          "ioctl")

\* Variant: the request is issued again after a failure.
stub_bridge_add_ret_retry(t) ==
    /\ pc[t] = "ioctl"
    /\ cur[t].op = "stub_bridge_add"
    /\ lockHolder = t
    /\ \E idx \in IndexChoices(netdev, cur[t].request) :
         LET c == cur[t]
             k == ioctl(netdev, openFds, c.fd, c.request, c.carg, c.ifr, idx)
             raised == CHECK_IOCTL(k.ret, k.errno, "bridge add")
         IN  IF k.ret < 0 /\ c.nioctl < 2
             THEN /\ cur' = [cur EXCEPT ![t].nioctl = @ + 1]
                  /\ UNCHANGED <<netdev, openFds, lockHolder, pc, last, prev>>
             ELSE Complete(t,
                           [c EXCEPT !.ret = k.ret, !.errno = k.errno,
                                     !.outcome = IF raised.kind = "Failure"
                                                 THEN raised ELSE Val_unit],
                           k.netdev)

stub_bridge_add_ret(t) == IoctlReturn(t, "stub_bridge_add", "bridge add")

(* stub_bridge_del *)

\* Variant: the request code of stub_bridge_add is left in place.
stub_bridge_del_call_addbr(t, fd, name) ==
    Begin(t, [NoCall EXCEPT !.op = "stub_bridge_del", !.fd = fd, !.name = name,
                            !.request = "SIOCBRADDBR",
                            !.carg = String_val(name), !.nioctl = 1],
          "ioctl")

stub_bridge_del_call(t, fd, name) ==
    Begin(t, [NoCall EXCEPT !.op = "stub_bridge_del", !.fd = fd, !.name = name,
                            !.request = "SIOCBRDELBR",
                            !.carg = String_val(name), !.nioctl = 1],
          "ioctl")

\* Variant: the label of stub_bridge_add is left in place.
stub_bridge_del_ret_label(t) == IoctlReturn(t, "stub_bridge_del", "bridge add")

stub_bridge_del_ret(t) == IoctlReturn(t, "stub_bridge_del", "bridge del")

(* stub_bridge_intf_add *)

\* Variant: the name field is cleared after the copy instead of before it.
intf_add_ifr_clear_last(ifr, name, ifindex) ==
    [ifr EXCEPT !.ifr_name = memset(strncpy(@, String_val(name), IFNAMSIZ), 0,
                                    IFNAMSIZ),
                !.ifr_ifindex = ifindex]

\* strcpy: the bytes of src and its NUL, nothing after it.
strcpy(dst, src) ==
    [i \in 1..Len(dst) |->
        IF i <= strlen(src) THEN src[i]
        ELSE IF i = strlen(src) + 1 THEN 0 ELSE dst[i]]

\* Variant: the name is copied with strcpy into the field as the stack left
\* it, without the memset.
intf_add_ifr_strcpy(ifr, name, ifindex) ==
    [ifr EXCEPT !.ifr_name = strcpy(@, String_val(name)),
                !.ifr_ifindex = ifindex]

\* memset(ifr.ifr_name, 0, IFNAMSIZ); strncpy(ifr.ifr_name, name, IFNAMSIZ);
\* ifr.ifr_ifindex = ifindex;
intf_add_ifr(ifr, name, ifindex) ==
    [ifr EXCEPT !.ifr_name = strncpy(memset(@, 0, IFNAMSIZ), String_val(name),
                                     IFNAMSIZ),
                !.ifr_ifindex = ifindex]

stub_bridge_intf_add_call(t, fd, name, intf) ==
    Begin(t, [NoCall EXCEPT !.op = "stub_bridge_intf_add", !.fd = fd,
                            !.name = name, !.intf = intf, !.nres = 1],
          "if_nametoindex")

\* Variant: the index is kept in a static variable and resolved only while
\* that variable is zero.
stub_bridge_intf_add_resolved_cached(t) ==
    LET ifindex == IF last.op \in IntfOps /\ last.ifindex # 0
                   THEN last.ifindex
                   ELSE if_nametoindex(netdev, String_val(cur[t].intf))
    IN  \E g \in StackBytes :
          IntfResolved(t, "stub_bridge_intf_add", ifindex, ifindex = 0,
                       "SIOCBRADDIF",
                       intf_add_ifr(ifreq(g), cur[t].name, ifindex))

stub_bridge_intf_add_resolved(t) ==
    LET ifindex == if_nametoindex(netdev, String_val(cur[t].intf))
    IN  \E g \in StackBytes :
          IntfResolved(t, "stub_bridge_intf_add", ifindex, ifindex = 0,
                       "SIOCBRADDIF",
                       intf_add_ifr(ifreq(g), cur[t].name, ifindex))

stub_bridge_intf_add_ret(t) ==
    IoctlReturn(t, "stub_bridge_intf_add", "bridge intf add")

(* stub_bridge_intf_del *)

\* Variant: the copy is bounded by IFNAMSIZ - 1, which keeps a final NUL.
intf_del_ifr_terminated(ifr, name, ifindex) ==
    [ifr EXCEPT !.ifr_name = strncpy(memset(@, 0, IFNAMSIZ), String_val(name),
                                     IFNAMSIZ - 1),
                !.ifr_ifindex = ifindex]

\* memset(ifr.ifr_name, 0, IFNAMSIZ); strncpy(ifr.ifr_name, name, IFNAMSIZ);
\* ifr.ifr_ifindex = ifindex;
intf_del_ifr(ifr, name, ifindex) ==
    [ifr EXCEPT !.ifr_name = strncpy(memset(@, 0, IFNAMSIZ), String_val(name),
                                     IFNAMSIZ),
                !.ifr_ifindex = ifindex]

stub_bridge_intf_del_call(t, fd, name, intf) ==
    Begin(t, [NoCall EXCEPT !.op = "stub_bridge_intf_del", !.fd = fd,
                            !.name = name, !.intf = intf, !.nres = 1],
          "if_nametoindex")

\* Variant: the result of if_nametoindex is tested for a negative value.
stub_bridge_intf_del_resolved_neg(t) ==
    LET ifindex == if_nametoindex(netdev, String_val(cur[t].intf))
    IN  \E g \in StackBytes :
          IntfResolved(t, "stub_bridge_intf_del", ifindex, ifindex < 0,
                       "SIOCBRDELIF",
                       intf_del_ifr(ifreq(g), cur[t].name, ifindex))

\* Variant: the request code of stub_bridge_intf_add is left in place.
stub_bridge_intf_del_resolved_addif(t) ==
    LET ifindex == if_nametoindex(netdev, String_val(cur[t].intf))
    IN  \E g \in StackBytes :
          IntfResolved(t, "stub_bridge_intf_del", ifindex, ifindex = 0,
                       "SIOCBRADDIF",
                       intf_del_ifr(ifreq(g), cur[t].name, ifindex))

stub_bridge_intf_del_resolved(t) ==
    LET ifindex == if_nametoindex(netdev, String_val(cur[t].intf))
    IN  \E g \in StackBytes :
          IntfResolved(t, "stub_bridge_intf_del", ifindex, ifindex = 0,
                       "SIOCBRDELIF",
                       intf_del_ifr(ifreq(g), cur[t].name, ifindex))

stub_bridge_intf_del_ret(t) ==
    IoctlReturn(t, "stub_bridge_intf_del", "bridge intf del")

---------------------------------------------------------------------------
(* The runtime and the specification *)

\* Between stubs, in OCaml code, the runtime hands the master lock from the
\* running task to another one.
Yield(t) ==
    /\ pc[t] = "idle"
    /\ lockHolder = t
    /\ \E u \in Tasks \ {t} : lockHolder' = u
    /\ UNCHANGED <<netdev, openFds, pc, cur, last, prev>>

TaskStep(t) ==
    \/ \E a \in BridgeCalls : stub_bridge_add_call(t, a[1], a[2])
    \/ stub_bridge_add_ret(t)
    \/ \E a \in BridgeCalls : stub_bridge_del_call(t, a[1], a[2])
    \/ stub_bridge_del_ret(t)
    \/ \E a \in IntfCalls : stub_bridge_intf_add_call(t, a[1], a[2], a[3])
    \/ stub_bridge_intf_add_resolved(t)
    \/ stub_bridge_intf_add_ret(t)
    \/ \E a \in IntfCalls : stub_bridge_intf_del_call(t, a[1], a[2], a[3])
    \/ stub_bridge_intf_del_resolved(t)
    \/ stub_bridge_intf_del_ret(t)
    \/ Yield(t)

Init ==
    /\ netdev = {[name |-> Eth, ifindex |-> 1, bridge |-> FALSE, master |-> NoName]}
    /\ openFds = {3}
    /\ lockHolder = 1
    /\ pc = [t \in Tasks |-> "idle"]
    /\ cur = [t \in Tasks |-> NoCall]
    /\ last = NoCall
    /\ prev = NoCall

\* The shape of the state.
TypeOK ==
    /\ \A d \in netdev :
         /\ d.ifindex \in 1..MaxIndex
         /\ Len(d.name) \in 1..(IFNAMSIZ - 1)
         /\ d.bridge \in BOOLEAN
         /\ d.master \in {NoName} \cup Bridges(netdev)
         /\ dev_get_by_name(netdev, d.name) = {d}
         /\ dev_get_by_index(netdev, d.ifindex) = {d}
    /\ openFds \subseteq 0..4
    /\ lockHolder \in Tasks
    /\ pc \in [Tasks -> {"idle", "if_nametoindex", "ioctl"}]
    /\ \A t \in Tasks :
         /\ cur[t].op \in IntfOps \cup BridgeOps \cup {"none"}
         /\ pc[t] # "idle" => lockHolder = t
    /\ last.op \in IntfOps \cup BridgeOps \cup {"none"}
    /\ prev.op \in IntfOps \cup BridgeOps \cup {"none"}

Next == \E t \in Tasks : TaskStep(t)

Spec == Init /\ [][Next]_vars

---------------------------------------------------------------------------
(* Vocabulary of the properties *)

\* The C string an OCaml string denotes: its bytes before the first NUL.
CName(v) == SubSeq(String_val(v), 1, strlen(String_val(v)))

\* A name followed by zero bytes up to IFNAMSIZ.
Padded(n) == [i \in 1..IFNAMSIZ |-> IF i <= Len(n) THEN n[i] ELSE 0]

\* The index of the interface named by v among devs, 0 when there is none.
IndexOf(devs, v) ==
    IF dev_get_by_name(devs, CName(v)) = {} THEN 0
    ELSE (CHOOSE d \in dev_get_by_name(devs, CName(v)) : TRUE).ifindex

OwnLabel(op) ==
    CASE op = "stub_bridge_add" -> "bridge add"
      [] op = "stub_bridge_del" -> "bridge del"
      [] op = "stub_bridge_intf_add" -> "bridge intf add"
      [] op = "stub_bridge_intf_del" -> "bridge intf del"
      [] OTHER -> ""

DeviceNotFound == caml_failwith("Device_not_found", "")

\* The attach and detach calls that handed a request record to the kernel:
\* those blocked in the ioctl and the last one completed.
Handed ==
    {c \in {cur[t] : t \in {u \in Tasks : pc[u] = "ioctl"}} \cup {last} :
        c.op \in IntfOps /\ c.nioctl >= 1}

ValidBridgeName(v) == Len(CName(v)) \in 1..(IFNAMSIZ - 1)

FreeToEnslave(devs, v) ==
    \E d \in dev_get_by_name(devs, CName(v)) : ~d.bridge /\ d.master = NoName

SameArgs(a, b) ==
    a.op = b.op /\ a.fd = b.fd /\ a.name = b.name /\ a.intf = b.intf

---------------------------------------------------------------------------
(* Properties *)

\* C1: an attach or detach whose interface name resolves to no interface
\* fails with Device_not_found, issues no kernel request, and leaves the
\* bridge membership (the whole device table) as it was.
C1_UnresolvedFailsWithoutRequest ==
    (last.op \in IntfOps /\ dev_get_by_name(last.pre, CName(last.intf)) = {})
        => /\ last.outcome = DeviceNotFound
           /\ last.nioctl = 0
           /\ last.request = ""
           /\ Membership(netdev) = Membership(last.pre)
           /\ netdev = last.pre

C1_Witness ==
    /\ last.op = "stub_bridge_intf_del"
    /\ dev_get_by_name(last.pre, CName(last.intf)) = {}
    /\ last.outcome = DeviceNotFound
    /\ Membership(netdev) # {}

\* C2: a call ends in a failure carrying its own operation's label exactly
\* when its kernel request returned a negative value; when the request
\* returned success the call returns unit; no call reports another
\* operation's label.
C2_IoctlFailureOwnLabel ==
    last.op # "none" =>
        /\ (last.outcome.kind = "Failure" /\ last.outcome # DeviceNotFound)
              <=> (last.nioctl >= 1 /\ last.ret < 0)
        /\ (last.nioctl >= 1 /\ last.ret < 0)
              => /\ last.outcome.label = OwnLabel(last.op)
                 /\ last.outcome.errno = last.errno
        /\ (last.nioctl >= 1 /\ last.ret >= 0) => last.outcome = Val_unit
        /\ last.outcome.kind = "Failure"
              => last.outcome.label \in {OwnLabel(last.op), "Device_not_found"}

C2_Witness ==
    /\ last.op = "stub_bridge_del"
    /\ last.ret < 0
    /\ last.outcome = caml_failwith("bridge del", "ENXIO")
    /\ prev.op = "stub_bridge_del"
    /\ prev.outcome = Val_unit

\* C3: creating a bridge under a valid name that no device uses succeeds,
\* and destroying it right after succeeds too and leaves the set of bridges
\* as it was before the creation.
C3_CreateDestroyRoundTrip ==
    /\ (/\ last.op = "stub_bridge_add"
        /\ last.fd \in openFds
        /\ ValidBridgeName(last.name)
        /\ dev_get_by_name(last.pre, CName(last.name)) = {})
          => /\ last.outcome = Val_unit
             /\ CName(last.name) \in Bridges(netdev)
    /\ (/\ prev.op = "stub_bridge_add"
        /\ last.op = "stub_bridge_del"
        /\ prev.fd \in openFds
        /\ last.fd = prev.fd
        /\ last.name = prev.name
        /\ ValidBridgeName(prev.name)
        /\ dev_get_by_name(prev.pre, CName(prev.name)) = {})
          => /\ prev.outcome = Val_unit
             /\ last.outcome = Val_unit
             /\ Bridges(netdev) = Bridges(prev.pre)
             /\ CName(prev.name) \notin Bridges(netdev)

C3_Witness ==
    /\ prev.op = "stub_bridge_add"
    /\ last.op = "stub_bridge_del"
    /\ prev.name = Br15
    /\ last.name = Br15
    /\ prev.outcome = Val_unit
    /\ last.outcome = Val_unit
    /\ Bridges(prev.pre) = {B1}
    /\ Bridges(netdev) = {B1}

\* C4: attaching a free interface to an existing bridge and detaching it
\* right after both succeed, both requests carry the same bridge name and the
\* same interface index, and the membership ends as it was before the attach.
C4_AttachDetachRoundTrip ==
    (/\ prev.op = "stub_bridge_intf_add"
     /\ last.op = "stub_bridge_intf_del"
     /\ prev.fd \in openFds
     /\ last.fd = prev.fd
     /\ last.name = prev.name
     /\ last.intf = prev.intf
     /\ CName(prev.name) \in Bridges(prev.pre)
     /\ FreeToEnslave(prev.pre, prev.intf))
        => /\ prev.outcome = Val_unit
           /\ last.outcome = Val_unit
           /\ prev.request = "SIOCBRADDIF"
           /\ last.request = "SIOCBRDELIF"
           /\ last.ifr.ifr_name = prev.ifr.ifr_name
           /\ dev_name(last.ifr.ifr_name) = CName(prev.name)
           /\ last.ifr.ifr_ifindex = prev.ifr.ifr_ifindex
           /\ last.ifr.ifr_ifindex = IndexOf(prev.pre, prev.intf)
           /\ Membership(last.pre) =
                Membership(prev.pre) \cup
                    {<<CName(prev.name), IndexOf(prev.pre, prev.intf)>>}
           /\ Membership(netdev) = Membership(prev.pre)

C4_Witness ==
    /\ prev.op = "stub_bridge_intf_add"
    /\ last.op = "stub_bridge_intf_del"
    /\ prev.name = Br15
    /\ last.name = Br15
    /\ prev.intf = Eth
    /\ last.intf = Eth
    /\ prev.outcome = Val_unit
    /\ last.outcome = Val_unit
    /\ Membership(last.pre) = {<<Br15, 1>>}
    /\ Membership(netdev) = {}

\* C5: a create or destroy call issues exactly one kernel request and no
\* name resolution; an attach or detach call resolves the name exactly
\* once, before any request, and then issues one request when the name
\* resolved and none when it did not; no request is ever repeated.
C5_OneRequestNoRetry ==
    /\ \A t \in Tasks :
         /\ pc[t] = "idle" => cur[t] = NoCall
         /\ pc[t] = "if_nametoindex"
              => cur[t].op \in IntfOps /\ cur[t].nres = 1 /\ cur[t].nioctl = 0
         /\ pc[t] = "ioctl"
              => /\ cur[t].nioctl = 1
                 /\ cur[t].nres = IF cur[t].op \in IntfOps THEN 1 ELSE 0
    /\ last.op \in BridgeOps => last.nioctl = 1 /\ last.nres = 0
    /\ last.op \in IntfOps
         => /\ last.nres = 1
            /\ last.nioctl = IF IndexOf(last.pre, last.intf) # 0 THEN 1 ELSE 0

C5_Witness ==
    /\ last.op = "stub_bridge_intf_add"
    /\ last.nres = 1
    /\ last.nioctl = 1
    /\ last.ret < 0
    /\ prev.op = "stub_bridge_intf_add"
    /\ prev.nioctl = 1
    /\ prev.ret < 0

\* C6: when the bridge name is shorter than IFNAMSIZ bytes and the
\* interface name resolves, the name field handed to the kernel has exactly
\* IFNAMSIZ bytes, the bridge name followed by zero bytes, and the index
\* field is the index the interface has at this call.
C6_RecordOfShortName ==
    \A c \in Handed :
        Len(CName(c.name)) < IFNAMSIZ
            => /\ Len(c.ifr.ifr_name) = IFNAMSIZ
               /\ c.ifr.ifr_name = Padded(CName(c.name))
               /\ c.ifr.ifr_name[IFNAMSIZ] = 0
               /\ c.ifr.ifr_ifindex = IndexOf(c.pre, c.intf)
               /\ c.ifr.ifr_ifindex # 0

C6_Witness ==
    /\ last \in Handed
    /\ last.op = "stub_bridge_intf_add"
    /\ last.name = Br15
    /\ last.ifr.ifr_name = Append(Br15, 0)
    /\ last.ifr.ifr_ifindex = 1

\* C7: the stubs never close or change the caller's descriptor, resolve the
\* interface index from the kernel's devices at each call, and keep nothing
\* between calls: two consecutive calls with the same arguments on the same
\* kernel state end the same way and pass the same name and index.
C7_NoStateBetweenCalls ==
    /\ openFds = {3}
    /\ \A c \in Handed : c.ifr.ifr_ifindex = IndexOf(netdev, c.intf)
    /\ last.op \in IntfOps => last.ifindex = IndexOf(last.pre, last.intf)
    /\ (prev.op # "none" /\ SameArgs(prev, last) /\ prev.pre = last.pre)
          => /\ last.outcome = prev.outcome
             /\ last.ret = prev.ret
             /\ last.ifr.ifr_name = prev.ifr.ifr_name
             /\ last.ifr.ifr_ifindex = prev.ifr.ifr_ifindex

C7_Witness ==
    /\ prev.op = "stub_bridge_intf_add"
    /\ SameArgs(prev, last)
    /\ prev.pre = last.pre
    /\ prev.intf = B1
    /\ prev.outcome = caml_failwith("bridge intf add", "ELOOP")
    /\ last.outcome = prev.outcome
    /\ last.ifr.ifr_ifindex = 3

\* C8: when the bridge name has IFNAMSIZ bytes or more, the stub reports no
\* error of its own about the name, the name field holds the first IFNAMSIZ
\* bytes of the name with no zero byte in it, and that record is passed to
\* the kernel.
C8_LongNameUnterminated ==
    /\ \A c \in Handed :
         Len(CName(c.name)) >= IFNAMSIZ
            => /\ c.ifr.ifr_name = SubSeq(CName(c.name), 1, IFNAMSIZ)
               /\ \A i \in 1..IFNAMSIZ : c.ifr.ifr_name[i] # 0
               /\ c.request \in {"SIOCBRADDIF", "SIOCBRDELIF"}
    /\ (last.op \in IntfOps /\ Len(CName(last.name)) >= IFNAMSIZ)
         => /\ last.nioctl = IF IndexOf(last.pre, last.intf) # 0 THEN 1 ELSE 0
            /\ last.outcome.kind = "Failure"
                 => \/ last.outcome = DeviceNotFound /\ last.nioctl = 0
                    \/ /\ last.outcome.label = OwnLabel(last.op)
                       /\ last.nioctl = 1
                       /\ last.ret < 0

C8_Witness ==
    /\ last \in Handed
    /\ last.op = "stub_bridge_intf_del"
    /\ last.name = Long17
    /\ last.ifr.ifr_name = Long16
    /\ last.outcome = Val_unit

\* C9 as stated: every byte of the record handed to the kernel is zero, a
\* byte of the bridge name or part of the resolved index, so two calls with
\* the same bridge name and the same resolved index hand over identical
\* records.
C9_WholeRecordZeroed ==
    /\ \A c \in Handed : c.ifr.ifr_pad = 0
    /\ \A c, d \in Handed :
         (CName(c.name) = CName(d.name) /\ c.ifindex = d.ifindex)
            => c.ifr = d.ifr

\* C9 as amended: the name field is zeroed before use: each of its bytes is
\* the byte of the bridge name at that place or zero, and the index field is
\* the resolved index, so two calls with the same bridge name and the same
\* resolved index hand over the same name field and the same index field.
C9_NameFieldZeroed ==
    /\ \A c \in Handed :
         /\ \A i \in 1..IFNAMSIZ :
              \/ i <= Len(CName(c.name)) /\ c.ifr.ifr_name[i] = CName(c.name)[i]
              \/ i > Len(CName(c.name)) /\ c.ifr.ifr_name[i] = 0
         /\ c.ifr.ifr_ifindex = c.ifindex
    /\ \A c, d \in Handed :
         (CName(c.name) = CName(d.name) /\ c.ifindex = d.ifindex)
            => /\ c.ifr.ifr_name = d.ifr.ifr_name
               /\ c.ifr.ifr_ifindex = d.ifr.ifr_ifindex

C9_Witness ==
    \E c \in Handed :
        /\ c # last
        /\ last \in Handed
        /\ c.op # last.op
        /\ c.name = Emb
        /\ last.name = Emb
        /\ c.ifindex = last.ifindex
        /\ c.ifr.ifr_name = last.ifr.ifr_name
        /\ c.ifr.ifr_pad # last.ifr.ifr_pad

\* C10: while a task is blocked in if_nametoindex or in ioctl, it does not
\* hold the master lock: another task can take a step.
C10_LockReleasedWhileBlocked ==
    \A t \in Tasks :
        pc[t] \in {"if_nametoindex", "ioctl"}
            => /\ lockHolder # t
               /\ \E u \in Tasks \ {t} : ENABLED TaskStep(u)

====
